---- MODULE Spec2Model ----
(***************************************************************************)
(* INTERLOCK: the cipher/HSM registry of config.go and the request gate,   *)
(* dispatcher and nonce-injecting response writer of api.go.               *)
(*                                                                         *)
(* Text (request URIs, the HSM directive, response bodies) is a sequence   *)
(* of tokens, one string per token: "/api/auth/login?x=1" is               *)
(* <<"/api/", "auth", "/", "login", "?", "x", "=", "1">>.  Parsing and     *)
(* splitting work on the tokens.                                           *)
(***************************************************************************)
EXTENDS Integers, Sequences, FiniteSets, TLC

VARIABLES
    conf,       \* var conf config (config.go:50): the registry and the configuration
    nextInst,   \* the next object identity handed out by a constructor
    proc,       \* the process: "init", "serving", "exited" (log.Fatal), "panicked"
    calls,      \* how often EnableCiphers / EnableHSM were called
    last,       \* the last registry operation and what it returned
    mux,        \* http.DefaultServeMux: pattern -> [handler, wrapped]
    resp        \* the response being served, with the request that caused it; also
                \* the registry lookup or the ActivateCiphers call a handler makes

vars == <<conf, nextInst, proc, calls, last, mux, resp>>

(***************************************************************************)
(* Bounds of the model.                                                    *)
(***************************************************************************)
MaxInst == 4        \* object identities 1..MaxInst
MaxWrites == 2      \* Write calls of the file server on one response
MaxCalls == 2       \* calls per enable function in SpecAnySequence

(***************************************************************************)
(* Token sequences.                                                        *)
(***************************************************************************)
Range(s) == {s[i] : i \in 1..Len(s)}

\* the first index >= i of token t in s, 0 when there is none
RECURSIVE IndexFrom(_, _, _)
IndexFrom(s, t, i) ==
    IF i > Len(s) THEN 0
    ELSE IF s[i] = t THEN i
    ELSE IndexFrom(s, t, i + 1)

\* strings.Split(s, sep): the pieces of s between the separators; never empty
RECURSIVE Split(_, _)
Split(s, sep) ==
    LET i == IndexFrom(s, sep, 1) IN
    IF i = 0 THEN <<s>>
    ELSE <<SubSeq(s, 1, i - 1)>> \o Split(SubSeq(s, i + 1, Len(s)), sep)

(***************************************************************************)
(* Providers.  A cipher provider is [name, ext, inst], an HSM provider is  *)
(* [model, inst]; inst is the identity of the Go object.                   *)
(***************************************************************************)
CipherNames == {"OpenPGP", "TOTP", "AES-256-OFB"}

Extension(name) ==
    CASE name = "OpenPGP" -> "pgp"
      [] name = "TOTP" -> "otp"
      [] name = "AES-256-OFB" -> "aes256ofb"
      [] OTHER -> "hsm"

HSMModels == {<<"x">>}

NoHSM == [model |-> <<>>, inst |-> 0]

\* HSMInterface.New(): a new instance of the same model
NewHSM(val, inst) == [model |-> val.model, inst |-> inst]

\* HSMInterface.Cipher(): the cipher provider the HSM instance supplies
HSMCipher(HSM) == [name |-> "HSMCipher", ext |-> Extension("HSMCipher"), inst |-> HSM.inst]

\* cipherInterface.New(): a new instance of the same provider
NewCipher(val, inst) == [name |-> val.name, ext |-> val.ext, inst |-> inst]

(***************************************************************************)
(* The configuration a run starts with (config.Set reads it from a file).  *)
(***************************************************************************)
CipherLists == { <<>>, <<"TOTP">>, <<"OpenPGP", "TOTP">>, <<"TOTP", "Bogus">> }

HSMDirectives == {
    <<"off">>,
    <<"x", ":", "luks", ",", "cipher">>,
    <<"x", ":", "tls">>,
    <<"x", ":", "luks", ",", "bogus">>,
    <<"x", ":", "cipher", ",", "bogus">>,
    <<"x", ":", "luks", ":", "bogus">>,
    <<"x">>,
    <<"z", ":", "luks">> }

EmptyMap == [k \in {} |-> 0]

\* the zero value of config, with the configuration read into it.  A Go map
\* that is still nil reads as empty and panics on assignment: nilMaps names the
\* maps of c that are nil
ZeroConf(ciphers, hsm) ==
    [ Ciphers |-> ciphers, HSM |-> hsm,
      availableCiphers |-> EmptyMap, enabledCiphers |-> EmptyMap,
      availableHSMs |-> EmptyMap, authHSM |-> NoHSM, tlsHSM |-> NoHSM,
      nilMaps |-> {"availableCiphers", "enabledCiphers", "availableHSMs"} ]

(***************************************************************************)
(* config.go: the registry operations, as functions of the config value.   *)
(***************************************************************************)
SetAvailableCipher(c, cipher) ==
    [c EXCEPT !.availableCiphers = (cipher.name :> cipher) @@ @,
              !.nilMaps = @ \ {"availableCiphers"}]

SetAvailableHSM(c, model, HSM) ==
    [c EXCEPT !.availableHSMs = (model :> HSM) @@ @,
              !.nilMaps = @ \ {"availableHSMs"}]

\* the loop of EnableCiphers from index i on
RECURSIVE EnableCiphersLoop(_, _)
EnableCiphersLoop(c, i) ==
    IF i > Len(c.Ciphers) THEN [conf |-> c, err |-> "nil"]
    ELSE IF c.Ciphers[i] \in DOMAIN c.availableCiphers
    THEN EnableCiphersLoop(
            [c EXCEPT !.enabledCiphers =
                (c.Ciphers[i] :> c.availableCiphers[c.Ciphers[i]]) @@ @],
            i + 1)
    ELSE [conf |-> c, err |-> "unsupported cipher name"]

\* a version that skips a name it does not find
RECURSIVE EnableCiphersSkipLoop(_, _)
EnableCiphersSkipLoop(c, i) ==
    IF i > Len(c.Ciphers) THEN [conf |-> c, err |-> "nil"]
    ELSE IF c.Ciphers[i] \in DOMAIN c.availableCiphers
    THEN EnableCiphersSkipLoop(
            [c EXCEPT !.enabledCiphers =
                (c.Ciphers[i] :> c.availableCiphers[c.Ciphers[i]]) @@ @],
            i + 1)
    ELSE EnableCiphersSkipLoop(c, i + 1)

EnableCiphersSkipMissing(c) ==
    LET c1 == [c EXCEPT !.nilMaps = @ \ {"enabledCiphers"}] IN
    IF Len(c.Ciphers) = 0
    THEN [conf |-> c1, err |-> "missing cipher specification"]
    ELSE EnableCiphersSkipLoop(c1, 1)

EnableCiphers(c) ==
    LET c1 == [c EXCEPT !.nilMaps = @ \ {"enabledCiphers"}] IN
    IF Len(c.Ciphers) = 0
    THEN [conf |-> c1, err |-> "missing cipher specification"]
    ELSE EnableCiphersLoop(c1, 1)

\* a version whose cipher option enables the cipher without registering it
EnableHSMOptionNoRegister(st, HSM, opt) ==
    CASE opt = <<"luks">> -> [st EXCEPT !.conf.authHSM = HSM]
      [] opt = <<"tls">> -> [st EXCEPT !.conf.tlsHSM = HSM]
      [] opt = <<"cipher">> ->
            LET cipher == HSMCipher(HSM) IN
            IF "enabledCiphers" \in st.conf.nilMaps
            THEN [st EXCEPT !.outcome = "panic"]
            ELSE [st EXCEPT !.conf.enabledCiphers = (cipher.name :> cipher) @@ @]
      [] OTHER -> [st EXCEPT !.outcome = "fatal"]

\* a version that passes over an option it does not know
EnableHSMOptionIgnoreUnknown(st, HSM, opt) ==
    CASE opt = <<"luks">> -> [st EXCEPT !.conf.authHSM = HSM]
      [] opt = <<"tls">> -> [st EXCEPT !.conf.tlsHSM = HSM]
      [] opt = <<"cipher">> ->
            LET cipher == HSMCipher(HSM)
                c1 == SetAvailableCipher(st.conf, cipher)
            IN  IF "enabledCiphers" \in c1.nilMaps
                THEN [conf |-> c1, outcome |-> "panic"]
                ELSE [conf |-> [c1 EXCEPT !.enabledCiphers = (cipher.name :> cipher) @@ @],
                      outcome |-> "return"]
      [] OTHER -> st

\* one iteration of the option loop of EnableHSM; st is [conf, outcome]
EnableHSMOption(st, HSM, opt) ==
    CASE opt = <<"luks">> -> [st EXCEPT !.conf.authHSM = HSM]
      [] opt = <<"tls">> -> [st EXCEPT !.conf.tlsHSM = HSM]
      [] opt = <<"cipher">> ->
            LET cipher == HSMCipher(HSM)
                c1 == SetAvailableCipher(st.conf, cipher)
            IN  IF "enabledCiphers" \in c1.nilMaps
                THEN [conf |-> c1, outcome |-> "panic"]    \* assignment to entry in nil map
                ELSE [conf |-> [c1 EXCEPT !.enabledCiphers = (cipher.name :> cipher) @@ @],
                      outcome |-> "return"]
      [] OTHER -> [st EXCEPT !.outcome = "fatal"]

RECURSIVE EnableHSMLoop(_, _, _, _)
EnableHSMLoop(st, HSM, options, i) ==
    IF i > Len(options) \/ st.outcome # "return" THEN st
    ELSE EnableHSMLoop(EnableHSMOption(st, HSM, options[i]), HSM, options, i + 1)

\* EnableHSM on config c, inst the identity of the instance val.New() makes.
\* outcome: "return", "fatal" (log.Fatal) or "panic"; made: instances constructed
EnableHSM(c, inst) ==
    IF c.HSM = <<"off">> THEN [conf |-> c, outcome |-> "return", made |-> 0]
    ELSE
        LET HSMConf == Split(c.HSM, ":") IN
        IF Len(HSMConf) < 2 THEN [conf |-> c, outcome |-> "fatal", made |-> 0]
        ELSE
            LET model == HSMConf[1] IN
            IF model \in DOMAIN c.availableHSMs
            THEN LET options == Split(HSMConf[2], ",")
                     HSM == NewHSM(c.availableHSMs[model], inst)
                     st == EnableHSMLoop([conf |-> c, outcome |-> "return"], HSM, options, 1)
                 IN  [conf |-> st.conf, outcome |-> st.outcome, made |-> 1]
            ELSE [conf |-> c, outcome |-> "fatal", made |-> 0]

\* GetAvailableCipher: a fresh instance (identity inst) of the available provider
GetAvailableCipher(c, cipherName, inst) ==
    IF cipherName \notin DOMAIN c.availableCiphers
    THEN [cipher |-> [name |-> "", ext |-> "", inst |-> 0], err |-> "invalid cipher"]
    ELSE [cipher |-> NewCipher(c.availableCiphers[cipherName], inst), err |-> "nil"]

\* a version that hands out the instance kept in the registry
GetCipherStored(c, cipherName, inst) ==
    IF cipherName \notin DOMAIN c.enabledCiphers
    THEN [cipher |-> [name |-> "", ext |-> "", inst |-> 0], err |-> "invalid cipher"]
    ELSE [cipher |-> c.enabledCiphers[cipherName], err |-> "nil"]

\* GetCipher: a fresh instance (identity inst) of the enabled provider
GetCipher(c, cipherName, inst) ==
    IF cipherName \notin DOMAIN c.enabledCiphers
    THEN [cipher |-> [name |-> "", ext |-> "", inst |-> 0], err |-> "invalid cipher"]
    ELSE [cipher |-> NewCipher(c.enabledCiphers[cipherName], inst), err |-> "nil"]

\* GetCipherByExt: the results the range over the map can end with, one for
\* each enabled provider that has the extension
GetCipherByExt(c, ext) ==
    LET found == {n \in DOMAIN c.enabledCiphers : c.enabledCiphers[n].ext = ext} IN
    IF found = {}
    THEN {[cipher |-> [name |-> "", ext |-> "", inst |-> 0], err |-> "invalid cipher"]}
    ELSE {[cipher |-> c.enabledCiphers[n], err |-> "nil"] : n \in found}

\* the range of ActivateCiphers over the enabled providers still to visit (todo);
\* failing: the providers whose Activate returns an error.  st records the
\* arguments of the Activate calls on each provider and the errors logged
RECURSIVE ActivateCiphersStop(_, _, _, _, _)
ActivateCiphersStop(c, todo, activate, failing, st) ==
    IF todo = {} THEN st
    ELSE LET n == CHOOSE x \in todo : TRUE
             st1 == [st EXCEPT !.args[n] = Append(@, activate)]
         IN  IF n \in failing
             THEN [st1 EXCEPT !.logged = @ \cup {n}]    \* and returns
             ELSE ActivateCiphersStop(c, todo \ {n}, activate, failing, st1)

RECURSIVE ActivateCiphersLoop(_, _, _, _, _)
ActivateCiphersLoop(c, todo, activate, failing, st) ==
    IF todo = {} THEN st
    ELSE LET n == CHOOSE x \in todo : TRUE
             st1 == [st EXCEPT !.args[n] = Append(@, activate)]
             st2 == IF n \in failing THEN [st1 EXCEPT !.logged = @ \cup {n}] ELSE st1
         IN  ActivateCiphersLoop(c, todo \ {n}, activate, failing, st2)

\* ActivateCiphers(activate): [conf, on, args, logged]
ActivateCiphers(c, activate, failing) ==
    ActivateCiphersLoop(c, DOMAIN c.enabledCiphers, activate, failing,
                        [conf |-> c, on |-> activate,
                         args |-> [n \in DOMAIN c.enabledCiphers |-> <<>>],
                         logged |-> {}])

(***************************************************************************)
(* api.go: request URIs and their parsing.                                 *)
(***************************************************************************)
Api(a, b) == <<"/api/", a, "/", b>>

\* tokens that consist of [A-Za-z0-9] only / that start with [a-z0-9_]
AlnumTokens == {"auth", "file", "luks", "config", "crypto", "status", "OpenPGP", "TOTP",
                "Nonexistent", "login", "refresh", "logout", "list", "upload", "download",
                "whatever", "id", "x", "1"}

LowerTokens == {"auth", "file", "luks", "config", "crypto", "status",
                "login", "refresh", "logout", "list", "upload", "download",
                "whatever", "gen_key", "upload_key", "key_info", "id", "x", "1"}

\* the first position >= i where URIPattern matches, 0 when there is none
RECURSIVE URIPatternAt(_, _)
URIPatternAt(s, i) ==
    IF i + 3 > Len(s) THEN 0
    ELSE IF /\ s[i] = "/api/"
            /\ s[i + 1] \in AlnumTokens
            /\ s[i + 2] = "/"
            /\ s[i + 3] \in LowerTokens
    THEN i
    ELSE URIPatternAt(s, i + 1)

\* URIPattern.FindStringSubmatch(s): <<match, group 1, group 2>>, or <<>>; the
\* pattern is not anchored
FindStringSubmatch(s) ==
    LET i == URIPatternAt(s, 1) IN
    IF i = 0 THEN <<>>
    ELSE <<SubSeq(s, i, i + 3), s[i + 1], s[i + 3]>>

\* url.Parse(rawurl): the path ends at the first "?", the query follows it
urlParse(rawurl) ==
    LET q == IndexFrom(rawurl, "?", 1) IN
    IF q = 0 THEN [Path |-> rawurl, RawQuery |-> <<>>]
    ELSE [Path |-> SubSeq(rawurl, 1, q - 1), RawQuery |-> SubSeq(rawurl, q + 1, Len(rawurl))]

\* key and value of one "key=value" piece of a query
PieceKey(piece) ==
    LET e == IndexFrom(piece, "=", 1) IN
    IF e = 0 THEN piece ELSE SubSeq(piece, 1, e - 1)

PieceValue(piece) ==
    LET e == IndexFrom(piece, "=", 1) IN
    IF e = 0 THEN <<>> ELSE SubSeq(piece, e + 1, Len(piece))

\* the values of the pieces with key k, in order
RECURSIVE ValuesOf(_, _, _)
ValuesOf(pieces, k, i) ==
    IF i > Len(pieces) THEN <<>>
    ELSE (IF pieces[i] # <<>> /\ PieceKey(pieces[i]) = k
          THEN <<PieceValue(pieces[i])>> ELSE <<>>) \o ValuesOf(pieces, k, i + 1)

\* url.ParseQuery(query): key -> the list of its values
urlParseQuery(query) ==
    LET pieces == Split(query, "&")
        keys == {PieceKey(pieces[i]) : i \in {j \in 1..Len(pieces) : pieces[j] # <<>>}}
    IN  [k \in keys |-> ValuesOf(pieces, k, 1)]

(***************************************************************************)
(* api.go: responses.  A response records the request, what answered it    *)
(* (out: "envelope" sent by sendResponse, "raw" http.Error, "handler" a    *)
(* content handler's own result, "panic" a run-time panic), the handler    *)
(* invoked, the headers, and the bytes that reached the underlying writer. *)
(***************************************************************************)
NoCipher == [name |-> "", ext |-> "", inst |-> 0]

NoReq == [RequestURI |-> <<>>, validSessionID |-> FALSE, validXSRFToken |-> FALSE,
          errNil |-> FALSE]

\* a lookup in the registry: the function, its argument, what it returned
NoLookup == [fn |-> "none", key |-> "", cipher |-> NoCipher, err |-> "nil"]

\* a call of ActivateCiphers: its argument, the Activate calls, the errors logged
NoActivation == [on |-> FALSE, args |-> EmptyMap, logged |-> {}]

NoResp ==
    [ route |-> "none", req |-> NoReq, out |-> "none", status |-> "", code |-> 0,
      handler |-> "none", arg |-> <<>>, viaHandleRequest |-> FALSE, cipher |-> NoCipher,
      made |-> 0, headers |-> EmptyMap, wrapped |-> FALSE, nonce |-> <<>>,
      writes |-> <<>>, w |-> <<>>, n |-> <<>>,
      lookup |-> NoLookup, prev |-> NoLookup, activation |-> NoActivation ]

\* sendResponse(w, jsonObject{"status": status, ...})
Envelope(res, status) ==
    [res EXCEPT !.out = "envelope", !.status = status, !.code = 200]

\* a content handler runs and answers by itself or through sendResponse
Handled(res, handler) ==
    [res EXCEPT !.out = "handler", !.handler = handler, !.code = 200]

notFound(res) == Envelope(res, "INVALID")

\* the fixed command table of handleRequest: the handler of a request URI
FixedHandler(uri) ==
    CASE uri = Api("auth", "logout") -> "logout"
      [] uri = Api("auth", "poweroff") -> "poweroff"
      [] uri = Api("luks", "change") -> "passwordRequest_change"
      [] uri = Api("luks", "add") -> "passwordRequest_add"
      [] uri = Api("luks", "remove") -> "passwordRequest_remove"
      [] uri = Api("config", "time") -> "setTime"
      [] uri = Api("file", "list") -> "fileList"
      [] uri = Api("file", "upload") -> "fileUpload"
      [] uri = Api("file", "download") -> "fileDownload"
      [] uri = Api("file", "delete") -> "fileDelete"
      [] uri = Api("file", "move") -> "fileMove"
      [] uri = Api("file", "copy") -> "fileCopy"
      [] uri = Api("file", "mkdir") -> "fileMkdir"
      [] uri = Api("file", "extract") -> "fileExtract"
      [] uri = Api("file", "compress") -> "fileCompress"
      [] uri = Api("file", "encrypt") -> "fileEncrypt"
      [] uri = Api("file", "decrypt") -> "fileDecrypt"
      [] uri = Api("file", "sign") -> "fileSign"
      [] uri = Api("file", "verify") -> "fileVerify"
      [] uri = Api("crypto", "ciphers") -> "ciphers"
      [] uri = Api("crypto", "keys") -> "keys"
      [] uri = Api("crypto", "gen_key") -> "genKey"
      [] uri = Api("crypto", "upload_key") -> "uploadKey"
      [] uri = Api("crypto", "key_info") -> "keyInfo"
      [] uri = Api("status", "version") -> "versionStatus"
      [] uri = Api("status", "running") -> "runningStatus"
      [] OTHER -> "none"

\* a version whose dynamic route looks among the enabled providers only
handleRequestEnabledOnly(c, uri, inst, res) ==
    LET via == [res EXCEPT !.viaHandleRequest = TRUE] IN
    IF FixedHandler(uri) # "none" THEN Handled(via, FixedHandler(uri))
    ELSE
        LET m == FindStringSubmatch(uri) IN
        IF Len(m) = 3
        THEN LET got == GetCipher(c, m[2], inst) IN
             IF got.err # "nil" THEN notFound(via)
             ELSE [Handled(via, "HandleRequest") EXCEPT !.cipher = got.cipher, !.made = 1]
        ELSE notFound(via)

\* handleRequest for request URI uri; res is the response so far
handleRequest(c, uri, inst, res) ==
    LET via == [res EXCEPT !.viaHandleRequest = TRUE] IN
    IF FixedHandler(uri) # "none" THEN Handled(via, FixedHandler(uri))
    ELSE
        LET m == FindStringSubmatch(uri) IN
        IF Len(m) = 3
        THEN LET got == GetAvailableCipher(c, m[2], inst) IN
             IF got.err # "nil" THEN notFound(via)
             ELSE [Handled(via, "HandleRequest") EXCEPT !.cipher = got.cipher, !.made = 1]
        ELSE notFound(via)

\* a gate that asks for the session only
apiHandlerSessionOnly(c, r, v, inst) ==
    LET res == [NoResp EXCEPT !.route = "api", !.req = [RequestURI |-> r] @@ v,
                              !.headers = ("Content-Type" :> "application/json")]
    IN  IF v.validSessionID THEN handleRequest(c, r, inst, res)
        ELSE Envelope(res, "INVALID_SESSION")

\* a gate without the special cases of upload and download
apiHandlerUniform(c, r, v, inst) ==
    LET res == [NoResp EXCEPT !.route = "api", !.req = [RequestURI |-> r] @@ v,
                              !.headers = ("Content-Type" :> "application/json")]
    IN  CASE r = Api("auth", "login") -> Handled(res, "login")
          [] r = Api("auth", "refresh") ->
                IF v.validSessionID /\ v.validXSRFToken THEN Handled(res, "refresh")
                ELSE Envelope(res, "INVALID_SESSION")
          [] OTHER ->
                IF v.validSessionID /\ v.validXSRFToken THEN handleRequest(c, r, inst, res)
                ELSE Envelope(res, "INVALID_SESSION")

\* apiHandler for request URI r, with v = [validSessionID, validXSRFToken, errNil]
\* what session.Validate(r) returns (errNil: its error value is nil)
apiHandler(c, r, v, inst) ==
    LET res == [NoResp EXCEPT !.route = "api", !.req = [RequestURI |-> r] @@ v,
                              !.headers = ("Content-Type" :> "application/json")]
    IN  CASE r = Api("auth", "login") -> Handled(res, "login")
          [] r = Api("auth", "refresh") ->
                IF v.validSessionID THEN Handled(res, "refresh")
                ELSE Envelope(res, "INVALID_SESSION")
          [] OTHER ->
                IF ~(v.validSessionID /\ v.validXSRFToken)
                THEN LET u == urlParse(r) IN
                     CASE u.Path = Api("file", "upload") ->
                            IF v.errNil
                            THEN [res EXCEPT !.out = "panic"]    \* err.Error() on a nil error
                            ELSE [res EXCEPT !.out = "raw", !.code = 401,
                                     !.headers = ("Content-Type" :> "text/plain; charset=utf-8") @@ @]
                       [] u.Path = Api("file", "download") /\ v.validSessionID ->
                            LET p == urlParseQuery(u.RawQuery) IN
                            IF <<"id">> \notin DOMAIN p
                            THEN [res EXCEPT !.out = "panic"]    \* p["id"][0]: index out of range
                            ELSE [Handled(res, "fileDownloadByID") EXCEPT !.arg = p[<<"id">>][1]]
                       [] OTHER -> Envelope(res, "INVALID_SESSION")
                ELSE handleRequest(c, r, inst, res)

(***************************************************************************)
(* api.go: the nonce-injecting response writer.                            *)
(***************************************************************************)
nonceSize == 32

\* "{{ nonce }}", one token per byte
nonceToken == <<"{", "{", " ", "n", "o", "n", "c", "e", " ", "}", "}">>

\* strings.Replace(s, old, new, -1) from position i on, for a non-empty old
RECURSIVE ReplaceFrom(_, _, _, _)
ReplaceFrom(s, old, new, i) ==
    IF i > Len(s) THEN <<>>
    ELSE IF i + Len(old) - 1 <= Len(s) /\ SubSeq(s, i, i + Len(old) - 1) = old
    THEN new \o ReplaceFrom(s, old, new, i + Len(old))
    ELSE <<s[i]>> \o ReplaceFrom(s, old, new, i + 1)

stringsReplace(s, old, new) == ReplaceFrom(s, old, new, 1)

\* whether s holds old
Contains(s, old) ==
    \E i \in 1..Len(s) : i + Len(old) - 1 <= Len(s) /\ SubSeq(s, i, i + Len(old) - 1) = old

\* ResponseNoncer.Write(b): what reaches r.w, and the count r.w.Write returns
ResponseNoncerWrite(b, nonce) ==
    LET noncedString == stringsReplace(b, nonceToken, nonce) IN
    [fwd |-> noncedString, n |-> Len(noncedString)]

\* the handler's Write calls ws[i..] through the noncer: [w, n]
RECURSIVE WriteAll(_, _, _)
WriteAll(ws, nonce, i) ==
    IF i > Len(ws) THEN [w |-> <<>>, n |-> <<>>]
    ELSE LET one == ResponseNoncerWrite(ws[i], nonce)
             rest == WriteAll(ws, nonce, i + 1)
         IN  [w |-> one.fwd \o rest.w, n |-> <<one.n>> \o rest.n]

RECURSIVE Concat(_, _)
Concat(ws, i) == IF i > Len(ws) THEN <<>> ELSE ws[i] \o Concat(ws, i + 1)

\* encodedRandomString(nonceSize, false): nonceSize symbols of a print-safe alphabet
NonceValues == {[i \in 1..nonceSize |-> ch] : ch \in {"A", "b"}}

CSP(nonce) == <<"default-src 'none'; script-src 'strict-dynamic' 'nonce-">> \o nonce
              \o <<"' 'unsafe-eval'; style-src 'self' 'unsafe-inline'; img-src 'self'; connect-src 'self';">>

\* applyHeaders without the Content-Security-Policy header
applyHeadersNoCSP(res, nonce, ws) ==
    LET out == WriteAll(ws, nonce, 1) IN
    [res EXCEPT
        !.headers = ("Cache-Control" :> "no-cache, no-store, max-age=0, must-revalidate")
                    @@ ("Pragma" :> "no-cache")
                    @@ ("Expires" :> "Fri, 07 Jan 1981 00:00:00 GMT") @@ @,
        !.wrapped = TRUE, !.nonce = nonce, !.writes = ws, !.w = out.w, !.n = out.n]

\* applyHeaders(h) serving one request: the headers, then h (whose response so
\* far is res and which makes the Write calls ws) on a ResponseNoncer with this nonce
applyHeaders(res, nonce, ws) ==
    LET out == WriteAll(ws, nonce, 1) IN
    [res EXCEPT
        !.headers = ("Content-Security-Policy" :> CSP(nonce))
                    @@ ("Cache-Control" :> "no-cache, no-store, max-age=0, must-revalidate")
                    @@ ("Pragma" :> "no-cache")
                    @@ ("Expires" :> "Fri, 07 Jan 1981 00:00:00 GMT") @@ @,
        !.wrapped = TRUE, !.nonce = nonce, !.writes = ws, !.w = out.w, !.n = out.n]

\* registerHandlers: the patterns of the mux; statOk: os.Stat found the static path
registerHandlers(statOk) ==
    IF ~statOk THEN [mux |-> EmptyMap, err |-> "invalid path for static files"]
    ELSE [mux |-> ("/" :> [handler |-> "FileServer", wrapped |-> TRUE])
                  @@ ("/api/" :> [handler |-> "apiHandler", wrapped |-> FALSE]),
          err |-> "nil"]

\* http.ServeMux: the pattern that serves a request URI
muxPattern(r) == IF Len(r) > 0 /\ r[1] = "/api/" THEN "/api/" ELSE "/"

\* the registered handler of entry runs: wrapped by applyHeaders or directly on
\* the connection's writer; inner is its response, ws the Write calls it makes
ServeHTTP(entry, inner, nonce, ws) ==
    IF entry.wrapped THEN applyHeaders(inner, nonce, ws)
    ELSE [inner EXCEPT !.writes = ws, !.w = Concat(ws, 1),
                       !.n = [i \in 1..Len(ws) |-> Len(ws[i])]]

(***************************************************************************)
(* The requests and file contents of a run.                                *)
(***************************************************************************)
WithQuery(path, q) == path \o <<"?">> \o q

ApiURIs == {
    Api("auth", "login"), Api("auth", "refresh"), Api("auth", "logout"),
    Api("file", "list"), Api("file", "upload"), Api("file", "download"),
    Api("OpenPGP", "whatever"), Api("Nonexistent", "whatever"), <<"/api/">>,
    Api("AES-256-OFB", "whatever"),
    WithQuery(Api("auth", "refresh"), <<"x", "=", "1">>),
    WithQuery(Api("file", "list"), <<"x", "=", "1">>),
    WithQuery(Api("file", "upload"), <<"x", "=", "1">>),
    WithQuery(Api("file", "download"), <<"id", "=", "1">>),
    WithQuery(Api("file", "download"), <<"x", "=", "1">>) }

StaticURIs == { <<"/", "index.html">> }

\* session.Validate(r): any combination of its three results
ValidateResults ==
    [validSessionID : BOOLEAN, validXSRFToken : BOOLEAN, errNil : BOOLEAN]

\* what one Write call of the file server can carry
Chunks == {
    nonceToken,
    <<"a">> \o nonceToken \o <<"b">> \o nonceToken,
    SubSeq(nonceToken, 1, 6),
    SubSeq(nonceToken, 7, 11) }

WriteSeqs == UNION {[1..k -> Chunks] : k \in 0..MaxWrites}

\* the names and the extensions handlers look providers up by
LookupNames == {"OpenPGP", "TOTP", "Nonexistent"}

LookupExts == {"pgp", "none"}

\* the body sendResponse writes for an envelope
EnvelopeBody(res) == IF res.out = "envelope" THEN << <<res.status>> >> ELSE <<>>

(***************************************************************************)
(* The state after construction.                                           *)
(***************************************************************************)
NoOp == [op |-> "none", outcome |-> "none"]

Init ==
    /\ conf \in {ZeroConf(l, h) : l \in CipherLists, h \in HSMDirectives}
    /\ nextInst = 1
    /\ proc = "init"
    /\ calls = [f \in {"EnableCiphers", "EnableHSM"} |-> 0]
    /\ last = NoOp
    /\ mux = EmptyMap
    /\ resp = NoResp

(***************************************************************************)
(* Initialization: plugin registration and the enable calls.               *)
(***************************************************************************)
\* a plugin registers a cipher provider it has constructed
SetAvailableCipherCall ==
    /\ nextInst <= MaxInst
    /\ \E name \in CipherNames :
          LET cipher == [name |-> name, ext |-> Extension(name), inst |-> nextInst] IN
          /\ conf' = SetAvailableCipher(conf, cipher)
          /\ last' = [op |-> "SetAvailableCipher", outcome |-> "return"]
    /\ nextInst' = nextInst + 1
    /\ UNCHANGED <<proc, calls, mux, resp>>

\* a plugin registers an HSM provider it has constructed
SetAvailableHSMCall ==
    /\ nextInst <= MaxInst
    /\ \E model \in HSMModels :
          /\ conf' = SetAvailableHSM(conf, model, [model |-> model, inst |-> nextInst])
          /\ last' = [op |-> "SetAvailableHSM", outcome |-> "return"]
    /\ nextInst' = nextInst + 1
    /\ UNCHANGED <<proc, calls, mux, resp>>

\* the call of EnableCiphers; with fatal, the caller ends the process on an error
EnableCiphersCall(fatal) ==
    LET r == EnableCiphers(conf) IN
    /\ conf' = r.conf
    /\ last' = [op |-> "EnableCiphers", outcome |-> r.err]
    /\ proc' = IF fatal /\ r.err # "nil" THEN "exited" ELSE proc
    /\ calls' = [calls EXCEPT !["EnableCiphers"] = @ + 1]
    /\ UNCHANGED <<nextInst, mux, resp>>

\* the call of EnableHSM
EnableHSMCall ==
    LET r == EnableHSM(conf, nextInst) IN
    /\ r.made = 0 \/ nextInst <= MaxInst
    /\ conf' = r.conf
    /\ last' = [op |-> "EnableHSM", outcome |-> r.outcome]
    /\ proc' = CASE r.outcome = "fatal" -> "exited"
                 [] r.outcome = "panic" -> "panicked"
                 [] OTHER -> proc
    /\ nextInst' = nextInst + r.made
    /\ calls' = [calls EXCEPT !["EnableHSM"] = @ + 1]
    /\ UNCHANGED <<mux, resp>>

\* the providers register from the init functions of their files, before main
init_SetAvailableCipher ==
    /\ proc = "init"
    /\ calls["EnableCiphers"] = 0 /\ calls["EnableHSM"] = 0
    /\ SetAvailableCipherCall

init_SetAvailableHSM ==
    /\ proc = "init"
    /\ calls["EnableCiphers"] = 0 /\ calls["EnableHSM"] = 0
    /\ SetAvailableHSMCall

\* main calls each enable function once and ends the process on an error
main_EnableCiphers ==
    /\ proc = "init"
    /\ calls["EnableCiphers"] = 0
    /\ EnableCiphersCall(TRUE)

main_EnableHSM ==
    /\ proc = "init"
    /\ calls["EnableHSM"] = 0
    /\ EnableHSMCall

\* main registers the handlers and starts to serve
main_registerHandlers ==
    /\ proc = "init"
    /\ calls["EnableCiphers"] = 1 /\ calls["EnableHSM"] = 1
    /\ \E statOk \in BOOLEAN :
          LET r == registerHandlers(statOk) IN
          /\ mux' = r.mux
          /\ proc' = IF r.err = "nil" THEN "serving" ELSE "exited"
          /\ last' = [op |-> "registerHandlers", outcome |-> r.err]
    /\ UNCHANGED <<conf, nextInst, calls, resp>>

(***************************************************************************)
(* Serving.                                                                *)
(***************************************************************************)
\* a request for an /api/ path
Serve_api ==
    /\ proc = "serving"
    /\ resp.out = "none"
    /\ \E r \in ApiURIs, v \in ValidateResults, nonce \in NonceValues :
          LET inner == apiHandler(conf, r, v, nextInst)
              res == ServeHTTP(mux[muxPattern(r)], inner, nonce, EnvelopeBody(inner))
          IN  /\ res.made = 0 \/ nextInst <= MaxInst
              /\ resp' = res
              /\ nextInst' = nextInst + res.made
    /\ UNCHANGED <<conf, proc, calls, last, mux>>

\* a request for a static file, which the file server writes in the chunks ws
Serve_static ==
    /\ proc = "serving"
    /\ resp.out = "none"
    /\ \E r \in StaticURIs, nonce \in NonceValues, ws \in WriteSeqs :
          LET inner == Handled([NoResp EXCEPT !.route = "static",
                                              !.req = [NoReq EXCEPT !.RequestURI = r]],
                               "FileServer")
          IN  resp' = ServeHTTP(mux[muxPattern(r)], inner, nonce, ws)
    /\ UNCHANGED <<conf, nextInst, proc, calls, last, mux>>

\* a version of the lookups that keeps the instance it hands out in the registry
LookupKeeping(c, fn, key, inst) ==
    CASE fn = "GetCipher" ->
            {[fn |-> fn, key |-> key, made |-> IF g.err = "nil" THEN 1 ELSE 0,
              conf |-> IF g.err = "nil"
                       THEN [c EXCEPT !.enabledCiphers = (key :> g.cipher) @@ @]
                       ELSE c] @@ g :
                g \in {GetCipher(c, key, inst)}}
      [] fn = "GetAvailableCipher" ->
            {[fn |-> fn, key |-> key, made |-> IF g.err = "nil" THEN 1 ELSE 0,
              conf |-> IF g.err = "nil"
                       THEN [c EXCEPT !.availableCiphers = (key :> g.cipher) @@ @]
                       ELSE c] @@ g :
                g \in {GetAvailableCipher(c, key, inst)}}
      [] fn = "GetCipherByExt" ->
            {[fn |-> fn, key |-> key, made |-> 0, conf |-> c] @@ g :
                g \in GetCipherByExt(c, key)}

\* the registry lookups a handler makes: the results a lookup can have, with
\* the number of instances it constructs and the config it leaves
Lookup(c, fn, key, inst) ==
    CASE fn = "GetCipher" ->
            {[fn |-> fn, key |-> key, made |-> IF g.err = "nil" THEN 1 ELSE 0,
              conf |-> c] @@ g :
                g \in {GetCipher(c, key, inst)}}
      [] fn = "GetAvailableCipher" ->
            {[fn |-> fn, key |-> key, made |-> IF g.err = "nil" THEN 1 ELSE 0,
              conf |-> c] @@ g :
                g \in {GetAvailableCipher(c, key, inst)}}
      [] fn = "GetCipherByExt" ->
            {[fn |-> fn, key |-> key, made |-> 0, conf |-> c] @@ g :
                g \in GetCipherByExt(c, key)}

\* a handler looks a provider up; a lookup can follow a lookup, of the same
\* request or of another one
Serve_lookup ==
    /\ proc = "serving"
    /\ resp.out \in {"none", "lookup"}
    /\ \E fn \in {"GetCipher", "GetAvailableCipher", "GetCipherByExt"} :
       \E key \in (IF fn = "GetCipherByExt" THEN LookupExts ELSE LookupNames) :
       \E g \in Lookup(conf, fn, key, nextInst) :
          /\ g.made = 0 \/ nextInst <= MaxInst
          /\ conf' = g.conf
          /\ resp' = [NoResp EXCEPT !.route = "lookup", !.out = "lookup",
                                    !.lookup = [fn |-> g.fn, key |-> g.key,
                                                cipher |-> g.cipher, err |-> g.err],
                                    !.prev = resp.lookup, !.made = g.made]
          /\ nextInst' = nextInst + g.made
    /\ UNCHANGED <<proc, calls, last, mux>>

\* a handler toggles the enabled providers; Activate fails on any of them
Serve_activate ==
    /\ proc = "serving"
    /\ resp.out = "none"
    /\ \E activate \in BOOLEAN, failing \in SUBSET DOMAIN conf.enabledCiphers :
          LET r == ActivateCiphers(conf, activate, failing) IN
          /\ conf' = r.conf
          /\ resp' = [NoResp EXCEPT !.route = "activate", !.out = "activate",
                                    !.activation = [on |-> r.on, args |-> r.args,
                                                    logged |-> r.logged]]
    /\ UNCHANGED <<nextInst, proc, calls, last, mux>>

\* the server has sent the response and the connection is ready for a request
Serve_done ==
    /\ proc = "serving"
    /\ resp.out # "none"
    /\ resp' = NoResp
    /\ UNCHANGED <<conf, nextInst, proc, calls, last, mux>>

Next ==
    \/ init_SetAvailableCipher
    \/ init_SetAvailableHSM
    \/ main_EnableCiphers
    \/ main_EnableHSM
    \/ main_registerHandlers
    \/ Serve_api
    \/ Serve_static
    \/ Serve_lookup
    \/ Serve_activate
    \/ Serve_done

Spec == Init /\ [][Next]_vars

(***************************************************************************)
(* Any sequence of registry calls: repeated, in any order, and going on    *)
(* after an error return.                                                  *)
(***************************************************************************)
Call_SetAvailableCipher ==
    /\ proc = "init"
    /\ SetAvailableCipherCall

Call_SetAvailableHSM ==
    /\ proc = "init"
    /\ SetAvailableHSMCall

Call_EnableCiphers ==
    /\ proc = "init"
    /\ calls["EnableCiphers"] < MaxCalls
    /\ EnableCiphersCall(FALSE)

Call_EnableHSM ==
    /\ proc = "init"
    /\ calls["EnableHSM"] < MaxCalls
    /\ EnableHSMCall

NextAnySequence ==
    \/ Call_SetAvailableCipher
    \/ Call_SetAvailableHSM
    \/ Call_EnableCiphers
    \/ Call_EnableHSM

SpecAnySequence == Init /\ [][NextAnySequence]_vars

(***************************************************************************)
(* The claims.  sv, xv: what session.Validate returned for the request of  *)
(* the response; a protected URI is any request URI other than login and   *)
(* refresh.                                                                *)
(***************************************************************************)
sv == resp.req.validSessionID

xv == resp.req.validXSRFToken

ProtectedApi ==
    /\ resp.route = "api"
    /\ resp.req.RequestURI \notin {Api("auth", "login"), Api("auth", "refresh")}

ParsedPath == urlParse(resp.req.RequestURI).Path

\* C1: for a request URI other than login and refresh, handleRequest runs only
\* with a valid session and a valid XSRF token; with less, the only content
\* handler that runs is fileDownloadByID, on the parsed path /api/file/download
\* with a valid session.
C1_GateBeforeDispatch ==
    ProtectedApi =>
        /\ resp.viaHandleRequest => (sv /\ xv)
        /\ (resp.handler # "none" /\ ~(sv /\ xv)) =>
                /\ resp.handler = "fileDownloadByID"
                /\ ParsedPath = Api("file", "download")
                /\ sv

C1_Witness ==
    /\ ProtectedApi
    /\ resp.viaHandleRequest
    /\ resp.handler = "fileList"

\* C2 as stated: a protected request that is not fully valid gets the
\* INVALID_SESSION envelope, the download path with a valid session being the
\* only exception.
C2_Original ==
    (ProtectedApi /\ ~(sv /\ xv) /\ ~(ParsedPath = Api("file", "download") /\ sv)) =>
        (resp.out = "envelope" /\ resp.status = "INVALID_SESSION")

\* C2 as amended: a protected request that is not fully valid gets the
\* INVALID_SESSION envelope, with two exceptions: the download path with a valid
\* session, and the upload path, which is never answered with the envelope.
C2_EnvelopeExceptUploadDownload ==
    (ProtectedApi /\ ~(sv /\ xv)) =>
        /\ (ParsedPath # Api("file", "upload")
                /\ ~(ParsedPath = Api("file", "download") /\ sv)) =>
                (resp.out = "envelope" /\ resp.status = "INVALID_SESSION"
                    /\ resp.handler = "none")
        /\ ParsedPath = Api("file", "upload") => resp.out # "envelope"

C2_Witness ==
    /\ ProtectedApi
    /\ ParsedPath = Api("file", "list")
    /\ sv /\ ~xv
    /\ resp.out = "envelope" /\ resp.status = "INVALID_SESSION"

\* C3: a request on the parsed path /api/file/upload that is not fully valid is
\* answered with a raw HTTP 401, without an envelope and without the upload
\* handler.
C3_UploadRaw401 ==
    (ProtectedApi /\ ParsedPath = Api("file", "upload") /\ ~(sv /\ xv)) =>
        /\ resp.out = "raw" /\ resp.code = 401
        /\ resp.handler = "none" /\ ~resp.viaHandleRequest

\* C4: on the parsed path /api/file/download, a valid session with an invalid
\* XSRF token is served by fileDownloadByID; an invalid session gets the
\* INVALID_SESSION envelope and no download handler.
C4_DownloadBypass ==
    (ProtectedApi /\ ParsedPath = Api("file", "download")) =>
        /\ (sv /\ ~xv) => (resp.out = "handler" /\ resp.handler = "fileDownloadByID")
        /\ ~sv => (resp.out = "envelope" /\ resp.status = "INVALID_SESSION"
                     /\ resp.handler = "none")

\* C5: the request URI /api/auth/refresh reaches refresh exactly when the session
\* is valid, whatever the XSRF result; an invalid session gets the
\* INVALID_SESSION envelope.
C5_RefreshSessionOnly ==
    (resp.route = "api" /\ resp.req.RequestURI = Api("auth", "refresh")) =>
        /\ (resp.handler = "refresh") <=> sv
        /\ sv => resp.out = "handler"
        /\ ~sv => (resp.out = "envelope" /\ resp.status = "INVALID_SESSION")

C5_Witness ==
    /\ resp.route = "api" /\ resp.req.RequestURI = Api("auth", "refresh")
    /\ sv /\ ~xv
    /\ resp.handler = "refresh"

\* the headers the wrapper sets, with the nonce of this response
WrapperHeaders ==
    /\ {"Content-Security-Policy", "Cache-Control", "Pragma", "Expires"}
            \subseteq DOMAIN resp.headers
    /\ resp.headers["Content-Security-Policy"] = CSP(resp.nonce)

\* every Write of the handler reached the writer with the token replaced
WritesSubstituted ==
    resp.w = Concat([i \in 1..Len(resp.writes) |->
                        stringsReplace(resp.writes[i], nonceToken, resp.nonce)], 1)

C7_AllPlaceholdersReplaced ==
    resp.wrapped =>
        /\ resp.w = stringsReplace(Concat(resp.writes, 1), nonceToken, resp.nonce)
        /\ ~Contains(resp.w, nonceToken)

\* C8: EnableCiphers returns an error when a configured name is not available;
\* when it returns none, every configured name is available and the keys of
\* enabledCiphers are exactly the configured names.
C8_EnableCiphersAllOrError ==
    last.op = "EnableCiphers" =>
        /\ (\E i \in 1..Len(conf.Ciphers) :
                conf.Ciphers[i] \notin DOMAIN conf.availableCiphers)
              => last.outcome # "nil"
        /\ last.outcome = "nil" =>
              /\ Range(conf.Ciphers) \subseteq DOMAIN conf.availableCiphers
              /\ DOMAIN conf.enabledCiphers = Range(conf.Ciphers)

C8_Witness ==
    /\ last.op = "EnableCiphers"
    /\ last.outcome = "nil"
    /\ Len(conf.Ciphers) = 2
    /\ DOMAIN conf.enabledCiphers = {"OpenPGP", "TOTP"}
    /\ calls["EnableHSM"] = 1

\* C9: after any sequence of SetAvailableCipher, EnableCiphers and EnableHSM
\* calls every key of enabledCiphers is a key of availableCiphers, and no step
\* removes a key of enabledCiphers.
C9_EnabledSubsetAppendOnly ==
    [][ /\ DOMAIN conf'.enabledCiphers \subseteq DOMAIN conf'.availableCiphers
        /\ DOMAIN conf.enabledCiphers \subseteq DOMAIN conf'.enabledCiphers ]_vars

C9_Witness ==
    /\ calls["EnableCiphers"] = 2
    /\ "HSMCipher" \in DOMAIN conf.enabledCiphers
    /\ "TOTP" \in DOMAIN conf.enabledCiphers
    /\ last.op = "EnableCiphers" /\ last.outcome # "nil"

\* C10: whenever model x is registered, EnableHSM with the directive
\* "x:luks,cipher" completes with a fresh instance of x as authHSM and with the
\* cipher of that instance in availableCiphers and in enabledCiphers.
C10_EnableHSMLuksCipher ==
    (/\ last.op = "EnableHSM"
     /\ conf.HSM = <<"x", ":", "luks", ",", "cipher">>
     /\ <<"x">> \in DOMAIN conf.availableHSMs) =>
        /\ last.outcome = "return"
        /\ conf.authHSM.model = <<"x">>
        /\ conf.authHSM.inst # conf.availableHSMs[<<"x">>].inst
        /\ HSMCipher(conf.authHSM).name \in DOMAIN conf.availableCiphers
        /\ HSMCipher(conf.authHSM).name \in DOMAIN conf.enabledCiphers

\* the options of an HSM directive "model:option,option": the comma-separated
\* parts of its second colon-separated field
DirectiveOptions(d) == Split(Split(d, ":")[2], ",")

ValidOptions == {<<"luks">>, <<"tls">>, <<"cipher">>}

StoredInsts ==
    {conf.availableCiphers[n].inst : n \in DOMAIN conf.availableCiphers}
        \cup {conf.enabledCiphers[n].inst : n \in DOMAIN conf.enabledCiphers}

ByName == {"GetCipher", "GetAvailableCipher"}

\* C12: a successful lookup by name (GetCipher, GetAvailableCipher) returns an
\* instance of the named provider that New() has just constructed, which is none
\* of the instances the registry keeps; the lookup by name before it returned
\* another instance.
C12_LookupByNameFresh ==
    (resp.route = "lookup" /\ resp.lookup.fn \in ByName /\ resp.lookup.err = "nil") =>
        /\ resp.made = 1
        /\ resp.lookup.cipher.name = resp.lookup.key
        /\ resp.lookup.cipher.inst \notin StoredInsts
        /\ (resp.prev.fn \in ByName /\ resp.prev.err = "nil") =>
                resp.prev.cipher.inst # resp.lookup.cipher.inst

C12_Witness ==
    /\ resp.route = "lookup"
    /\ resp.lookup.fn = "GetCipher" /\ resp.lookup.err = "nil"
    /\ resp.prev.fn = "GetCipher" /\ resp.prev.err = "nil"
    /\ resp.prev.key = resp.lookup.key

\* C13: a successful lookup by extension returns an instance that New() has just
\* constructed, none of the instances the registry keeps; when no enabled
\* provider has the extension the lookup returns the invalid cipher error.
C13_LookupByExtFresh ==
    (resp.route = "lookup" /\ resp.lookup.fn = "GetCipherByExt") =>
        /\ resp.lookup.err = "nil" =>
                (resp.made = 1 /\ resp.lookup.cipher.inst \notin StoredInsts)
        /\ (\A n \in DOMAIN conf.enabledCiphers :
                conf.enabledCiphers[n].ext # resp.lookup.key)
              => resp.lookup.err = "invalid cipher"

\* a fully valid request whose parsed path is not in the fixed command table
DynamicRequest ==
    /\ ProtectedApi
    /\ sv /\ xv
    /\ FixedHandler(ParsedPath) = "none"

\* the parsed path has the form /api/{name}/{action}
NameActionPath ==
    /\ Len(ParsedPath) = 4
    /\ ParsedPath[1] = "/api/" /\ ParsedPath[3] = "/"

\* the request went to HandleRequest of a new instance of provider name
ForwardedTo(name) ==
    /\ resp.out = "handler" /\ resp.handler = "HandleRequest"
    /\ resp.cipher.name = name
    /\ resp.made = 1 /\ resp.cipher.inst \notin StoredInsts

NotFoundEnvelope ==
    /\ resp.out = "envelope" /\ resp.status = "INVALID"
    /\ resp.handler = "none"

\* C14 as stated: a fully valid request to /api/{name}/{action} outside the
\* fixed table goes to HandleRequest of a fresh instance when {name} is the name
\* of an available provider, and gets the not-found envelope otherwise.
C14_Original ==
    DynamicRequest =>
        IF NameActionPath /\ ParsedPath[2] \in DOMAIN conf.availableCiphers
        THEN ForwardedTo(ParsedPath[2])
        ELSE NotFoundEnvelope

\* C14 as amended: the request goes to HandleRequest of a fresh instance when
\* the URI matches the dynamic pattern ({name} of letters and digits only,
\* {action} starting with a lower-case letter, digit or underscore) and {name} is
\* the name of an available provider, enabled or not; it gets the not-found
\* envelope otherwise, also for an available provider whose name the pattern
\* does not match.
C14_DynamicRoute ==
    DynamicRequest =>
        IF /\ NameActionPath
           /\ ParsedPath[2] \in AlnumTokens /\ ParsedPath[4] \in LowerTokens
           /\ ParsedPath[2] \in DOMAIN conf.availableCiphers
        THEN ForwardedTo(ParsedPath[2])
        ELSE NotFoundEnvelope

C14_Witness ==
    /\ DynamicRequest
    /\ resp.req.RequestURI = Api("OpenPGP", "whatever")
    /\ "OpenPGP" \in DOMAIN conf.availableCiphers \ DOMAIN conf.enabledCiphers
    /\ ForwardedTo("OpenPGP")

\* C15: every request for an /api/ path, with whatever session.Validate returns
\* and whatever query, ends in exactly one of the defined outcomes: an envelope,
\* the raw 401, or the result of a content handler; apiHandler never panics.
C15_DefinedOutcome ==
    resp.route = "api" =>
        /\ resp.out \in {"envelope", "raw", "handler"}
        /\ resp.out = "envelope" <=> resp.status # ""
        /\ resp.out = "handler" <=> resp.handler # "none"
        /\ resp.out = "raw" <=> resp.code = 401

\* C16: for a fully valid request the fixed command table is looked up by the
\* parsed path, whatever the query string: a parsed path in the table gets the
\* handler bound to it, and the dynamic route is consulted only for a parsed path
\* that is not in the table.
C16_FixedTableByParsedPath ==
    (ProtectedApi /\ sv /\ xv) =>
        /\ resp.viaHandleRequest
        /\ FixedHandler(ParsedPath) # "none" =>
                (resp.out = "handler" /\ resp.handler = FixedHandler(ParsedPath))
        /\ (resp.handler = "HandleRequest" \/ NotFoundEnvelope) =>
                FixedHandler(ParsedPath) = "none"

\* C17: ActivateCiphers(on) calls Activate(on) exactly once on every enabled
\* provider, also when Activate returns an error on some of them, and leaves the
\* registry as it was.
C17_ActivateAll ==
    [][ resp'.route = "activate" =>
            /\ DOMAIN resp'.activation.args = DOMAIN conf.enabledCiphers
            /\ \A n \in DOMAIN conf.enabledCiphers :
                    resp'.activation.args[n] = <<resp'.activation.on>>
            /\ conf' = conf ]_vars

C17_Witness ==
    /\ resp.route = "activate"
    /\ Cardinality(DOMAIN conf.enabledCiphers) >= 2
    /\ Cardinality(resp.activation.logged) >= 1
    /\ \A n \in DOMAIN conf.enabledCiphers : Len(resp.activation.args[n]) = 1

\* C18: no step of request serving (apiHandler with handleRequest, GetCipher,
\* GetAvailableCipher, GetCipherByExt), in whatever order the requests take
\* their steps, changes availableCiphers, enabledCiphers, availableHSMs, authHSM
\* or tlsHSM.
C18_ServingFrame ==
    [][ proc = "serving" =>
            /\ conf'.availableCiphers = conf.availableCiphers
            /\ conf'.enabledCiphers = conf.enabledCiphers
            /\ conf'.availableHSMs = conf.availableHSMs
            /\ conf'.authHSM = conf.authHSM
            /\ conf'.tlsHSM = conf.tlsHSM ]_vars

C18_Witness ==
    /\ resp.route = "lookup"
    /\ resp.lookup.fn = "GetCipherByExt" /\ resp.lookup.err = "nil"
    /\ resp.prev.fn = "GetAvailableCipher" /\ resp.prev.err = "nil"

\* the resource a content handler serves
Resource(handler) ==
    IF handler \in {"fileDownload", "fileDownloadByID"} THEN "download" ELSE handler

\* C19: access grows with the credentials: when a request with a valid session
\* and an invalid XSRF token was served by a content handler, the request with
\* the same URI and both valid is served by a content handler for the same
\* resource.
C19_MonotoneAccess ==
    (resp.route = "api" /\ sv /\ ~xv /\ resp.out = "handler") =>
        LET full == apiHandler(conf, resp.req.RequestURI,
                               [resp.req EXCEPT !.validXSRFToken = TRUE], nextInst)
        IN  /\ full.out = "handler"
            /\ Resource(full.handler) = Resource(resp.handler)

\* C20: every Write(b) of a wrapped response, the underlying writer succeeding,
\* returns the length of b, also when b holds placeholder tokens.
C20_WriteReturnsLen ==
    resp.wrapped =>
        /\ Len(resp.n) = Len(resp.writes)
        /\ \A i \in 1..Len(resp.writes) : resp.n[i] = Len(resp.writes[i])

====
